---- MODULE Spec2Model ----
(***************************************************************************)
(* The Windows stub of risc0-zkvm-platform's sys_alloc_aligned             *)
(* (crypto/txscript/src/zk_precompiles/risc0/windows_stub/sys_alloc.c).    *)
(*                                                                         *)
(* The translation unit is one #ifdef _WIN32 block holding a declaration   *)
(* of the MSVC runtime's _aligned_malloc and the exported function         *)
(*     void* sys_alloc_aligned(size_t size, size_t alignment)              *)
(*         { return _aligned_malloc(size, alignment); }                    *)
(*                                                                         *)
(* The model has three parts:                                              *)
(*  - the build: the preprocessor run over the file's lines under a build  *)
(*    configuration (_WIN32 defined or not), and the link of the object;   *)
(*  - the host heap, changed only by the host primitive (and by the        *)
(*    callers' releases and the rest of the process's allocations);        *)
(*  - the guest threads, each running sys_alloc_aligned as three steps:    *)
(*    entry with its two arguments, the call of _aligned_malloc, and the   *)
(*    return of that call's value.                                         *)
(*                                                                         *)
(* _aligned_malloc is not part of the file; it is modelled by its contract *)
(* in the MSVC runtime: the alignment must be a power of two, otherwise    *)
(* the invalid-parameter handler is invoked, which terminates the process  *)
(* (the default handler) or, if execution is allowed to continue, makes    *)
(* the call return NULL; a valid request returns NULL or the address of a  *)
(* fresh block, a multiple of the alignment.                               *)
(***************************************************************************)
EXTENDS Integers, FiniteSets, Sequences, TLC

\* ------------------------------------------------------------- bounds
\* Addresses of the host heap are 1..HeapEnd; 0 is the null pointer.
HeapEnd == 3
\* Largest satisfiable request size a caller issues (plus one absurd size).
MaxSize == 1
\* Alignments a caller issues are 0..MaxAlign (powers of two and others).
MaxAlign == 3
\* Guest threads calling the boundary concurrently.
NumThreads == 2
\* Allocation requests issued in one run (boundary calls and others).
MaxCalls == 2

NULL == 0
Threads == 1..NumThreads
Addrs == 1..HeapEnd
\* A size no host heap can supply ("larger than the address space").
AbsurdSize == HeapEnd + 1
Sizes == (0..MaxSize) \cup {AbsurdSize}
Alignments == 0..MaxAlign

Max(a, b) == IF a >= b THEN a ELSE b

\* ------------------------------------------------------------- the build
\* The lines of the translation unit that the compiler acts on.
Source ==
  << [kind |-> "ifdef",   name |-> "_WIN32"],
     [kind |-> "include", name |-> "stddef.h"],
     [kind |-> "declare", name |-> "_aligned_malloc"],
     [kind |-> "define",  name |-> "sys_alloc_aligned"],
     [kind |-> "endif",   name |-> ""] >>

\* The external functions a defined function's body calls.
Callees(fn) == IF fn = "sys_alloc_aligned" THEN {"_aligned_malloc"} ELSE {}

\* The predefined macros of a build configuration.
Macros(w) == IF w THEN {"_WIN32"} ELSE {}

\* Mutant: the guard inverted (#ifndef).
IfdefHoldsInverted(name, w) == name \notin Macros(w)

\* #ifdef name: the block is kept when the macro is defined.
IfdefHolds(name, w) == name \in Macros(w)

\* The preprocessor: the lines of src from i on that survive conditional
\* compilation; stack holds the truth of the enclosing #ifdef conditions.
RECURSIVE Preprocess(_, _, _, _)
Preprocess(src, i, stack, w) ==
  IF i > Len(src) THEN << >>
  ELSE LET l == src[i]
           active == \A k \in 1..Len(stack) : stack[k]
       IN  CASE l.kind = "ifdef" ->
                  Preprocess(src, i + 1, Append(stack, IfdefHolds(l.name, w)), w)
             [] l.kind = "endif" ->
                  Preprocess(src, i + 1, SubSeq(stack, 1, Len(stack) - 1), w)
             [] OTHER ->
                  IF active THEN << l >> \o Preprocess(src, i + 1, stack, w)
                  ELSE Preprocess(src, i + 1, stack, w)

\* The symbols the object file defines (all exported here).
DefinedSymbols(unit) ==
  { unit[i].name : i \in { j \in 1..Len(unit) : unit[j].kind = "define" } }

\* How many definitions of sym the object file holds.
DefinitionCount(unit, sym) ==
  Cardinality({ j \in 1..Len(unit) : unit[j].kind = "define" /\ unit[j].name = sym })

\* The symbols the object file leaves for the linker to resolve.
UndefinedSymbols(unit) ==
  UNION { Callees(s) : s \in DefinedSymbols(unit) } \ DefinedSymbols(unit)

\* The aligned-allocation primitive the host's C runtime provides.
HostRuntime(w) == IF w THEN {"_aligned_malloc"} ELSE {}

\* ------------------------------------------------------------- the heap
\* A block occupies at least one address, so that the blocks of zero-size
\* requests are distinct too.
Extent(b) == b.base .. (b.base + Max(b.len, 1) - 1)

Disjoint(b1, b2) == Extent(b1) \cap Extent(b2) = {}

\* The runtime's test that the alignment is a power of two, as the bit test
\* x != 0 && (x & (x - 1)) == 0.
RECURSIVE BitAnd(_, _)
BitAnd(x, y) ==
  IF x = 0 \/ y = 0 THEN 0
  ELSE (x % 2) * (y % 2) + 2 * BitAnd(x \div 2, y \div 2)

IsPow2(x) == x # 0 /\ BitAnd(x, x - 1) = 0

\* The addresses at which the host can place a block of s bytes aligned to a.
Fits(s, a, blocks) ==
  { p \in Addrs :
      /\ p % a = 0
      /\ p + Max(s, 1) - 1 <= HeapEnd
      /\ \A b \in blocks : (p .. (p + Max(s, 1) - 1)) \cap Extent(b) = {} }

VARIABLES
  win32,      \* the build configuration: _WIN32 is defined
  phase,      \* "source", "compiled", "linked" or "link_failed"
  unit,       \* the preprocessed translation unit
  proc,       \* "running" or "terminated"
  live,       \* the live blocks of the host heap
  statics,    \* the translation unit's static storage
  held,       \* the addresses the callers received and have not released
  pc,         \* per thread: "idle", "in_shim", "host_returned", "returned", "aborted"
  size,       \* per thread: the size argument of the call in progress
  alignment,  \* per thread: the alignment argument of the call in progress
  hostCalls,  \* per thread: calls of _aligned_malloc made by the call in progress
  hostArgs,   \* per thread: the arguments of the last such call
  hostret,    \* per thread: the value _aligned_malloc returned
  ret,        \* per thread: the value sys_alloc_aligned returned
  ncalls      \* allocation requests issued so far

vars == << win32, phase, unit, proc, live, statics, held, pc, size, alignment,
           hostCalls, hostArgs, hostret, ret, ncalls >>

buildVars == << win32, phase, unit >>
threadVars == << pc, size, alignment, hostCalls, hostArgs, hostret, ret >>

Init ==
  /\ win32 \in BOOLEAN
  /\ phase = "source"
  /\ unit = << >>
  /\ proc = "running"
  /\ live = {}
  /\ statics = {}
  /\ held = {}
  /\ pc = [t \in Threads |-> "idle"]
  /\ size = [t \in Threads |-> 0]
  /\ alignment = [t \in Threads |-> 0]
  /\ hostCalls = [t \in Threads |-> 0]
  /\ hostArgs = [t \in Threads |-> << 0, 0 >>]
  /\ hostret = [t \in Threads |-> NULL]
  /\ ret = [t \in Threads |-> NULL]
  /\ ncalls = 0

\* cc compiles the file under the build configuration.
Compile ==
  /\ phase = "source"
  /\ unit' = Preprocess(Source, 1, << >>, win32)
  /\ phase' = "compiled"
  /\ UNCHANGED << win32, proc, live, statics, held, threadVars, ncalls >>

\* The linker resolves the object's undefined symbols against the runtime.
Link ==
  /\ phase = "compiled"
  /\ phase' = IF UndefinedSymbols(unit) \subseteq HostRuntime(win32)
              THEN "linked" ELSE "link_failed"
  /\ UNCHANGED << win32, unit, proc, live, statics, held, threadVars, ncalls >>

\* The boundary can be called when the binary linked and holds the symbol.
Callable ==
  /\ phase = "linked"
  /\ "sys_alloc_aligned" \in DefinedSymbols(unit)
  /\ proc = "running"

\* A guest thread calls sys_alloc_aligned(s, a).
Enter(t, s, a) ==
  /\ Callable
  /\ pc[t] = "idle"
  /\ ncalls < MaxCalls
  /\ ncalls' = ncalls + 1
  /\ pc' = [pc EXCEPT ![t] = "in_shim"]
  /\ size' = [size EXCEPT ![t] = s]
  /\ alignment' = [alignment EXCEPT ![t] = a]
  /\ hostCalls' = [hostCalls EXCEPT ![t] = 0]
  /\ hostArgs' = [hostArgs EXCEPT ![t] = << 0, 0 >>]
  /\ hostret' = [hostret EXCEPT ![t] = NULL]
  /\ ret' = [ret EXCEPT ![t] = NULL]
  /\ UNCHANGED << buildVars, proc, live, statics, held >>

\* Mutant: the two arguments passed in the wrong order.
ForwardedArgsSwapped(s, a) == << a, s >>

\* Mutant: the size shortened by one before it is passed on.
ForwardedArgsShort(s, a) == << IF s > 0 THEN s - 1 ELSE 0, a >>

\* The arguments sys_alloc_aligned passes to _aligned_malloc: (size, alignment).
ForwardedArgs(s, a) == << s, a >>

\* _aligned_malloc(s, a) called by thread t: the outcomes of the host primitive.
\* Atomic: the runtime's heap is safe for concurrent calls.
aligned_malloc(t, s, a) ==
  \/ \* invalid parameter, the handler terminates the process
     /\ ~IsPow2(a)
     /\ proc' = "terminated"
     /\ pc' = [pc EXCEPT ![t] = "aborted"]
     /\ UNCHANGED << live, hostret >>
  \/ \* invalid parameter, execution continues: NULL (errno = EINVAL)
     /\ ~IsPow2(a)
     /\ hostret' = [hostret EXCEPT ![t] = NULL]
     /\ pc' = [pc EXCEPT ![t] = "host_returned"]
     /\ UNCHANGED << live, proc >>
  \/ \* no memory: NULL (errno = ENOMEM)
     /\ IsPow2(a)
     /\ hostret' = [hostret EXCEPT ![t] = NULL]
     /\ pc' = [pc EXCEPT ![t] = "host_returned"]
     /\ UNCHANGED << live, proc >>
  \/ \* a fresh block of s bytes at a multiple of a
     /\ IsPow2(a)
     /\ \E p \in Fits(s, a, live) :
          /\ live' = live \cup {[base |-> p, len |-> s, written |-> FALSE]}
          /\ hostret' = [hostret EXCEPT ![t] = p]
     /\ pc' = [pc EXCEPT ![t] = "host_returned"]
     /\ UNCHANGED proc

\* Mutant: the boundary rejects a zero size itself, aborting the process.
HostCallValidating(t) ==
  /\ proc = "running"
  /\ pc[t] = "in_shim"
  /\ IF size[t] = 0
     THEN /\ proc' = "terminated"
          /\ pc' = [pc EXCEPT ![t] = "aborted"]
          /\ UNCHANGED << live, hostret, hostCalls, hostArgs >>
     ELSE /\ hostCalls' = [hostCalls EXCEPT ![t] = @ + 1]
          /\ hostArgs' = [hostArgs EXCEPT ![t] = ForwardedArgs(size[t], alignment[t])]
          /\ aligned_malloc(t, size[t], alignment[t])
  /\ UNCHANGED << buildVars, statics, held, size, alignment, ret, ncalls >>

\* sys_alloc_aligned calls _aligned_malloc(size, alignment).
HostCall(t) ==
  /\ proc = "running"
  /\ pc[t] = "in_shim"
  /\ LET args == ForwardedArgs(size[t], alignment[t])
     IN  /\ hostCalls' = [hostCalls EXCEPT ![t] = @ + 1]
         /\ hostArgs' = [hostArgs EXCEPT ![t] = args]
         /\ aligned_malloc(t, args[1], args[2])
  /\ UNCHANGED << buildVars, statics, held, size, alignment, ret, ncalls >>

\* Mutant: a failure is turned into a non-null sentinel address.
ReturnValueSentinel(h) == IF h = NULL THEN HeapEnd ELSE h

\* Mutant: the address is moved past a header the boundary keeps.
ReturnValueOffset(h) == IF h = NULL THEN NULL ELSE h + 1

\* The value sys_alloc_aligned returns: the value of the host call.
ReturnValue(h) == h

\* Mutant: the boundary keeps the block in a static and hands it out again,
\* releasing what it handed out before.
ReturnCaching(t) ==
  /\ proc = "running"
  /\ pc[t] = "host_returned"
  /\ pc' = [pc EXCEPT ![t] = "returned"]
  /\ IF statics = {}
     THEN /\ ret' = [ret EXCEPT ![t] = hostret[t]]
          /\ statics' = IF hostret[t] = NULL THEN {} ELSE {hostret[t]}
          /\ live' = live
     ELSE /\ ret' = [ret EXCEPT ![t] = CHOOSE p \in statics : TRUE]
          /\ statics' = statics
          /\ live' = { b \in live : b.base # hostret[t] }
  /\ UNCHANGED << buildVars, proc, held, size, alignment, hostCalls, hostArgs,
                  hostret, ncalls >>

\* Mutant: after a NULL the boundary tries the host again.
ReturnRetrying(t) ==
  /\ proc = "running"
  /\ pc[t] = "host_returned"
  /\ IF hostret[t] = NULL /\ hostCalls[t] < 2
     THEN /\ pc' = [pc EXCEPT ![t] = "in_shim"]
          /\ ret' = ret
     ELSE /\ pc' = [pc EXCEPT ![t] = "returned"]
          /\ ret' = [ret EXCEPT ![t] = ReturnValue(hostret[t])]
  /\ UNCHANGED << buildVars, proc, live, statics, held, size, alignment, hostCalls,
                  hostArgs, hostret, ncalls >>

\* Mutant: the boundary returns under a lock that a call in progress holds.
ReturnLocked(t) ==
  /\ proc = "running"
  /\ pc[t] = "host_returned"
  /\ \A u \in Threads \ {t} : pc[u] \notin {"in_shim", "host_returned"}
  /\ pc' = [pc EXCEPT ![t] = "returned"]
  /\ ret' = [ret EXCEPT ![t] = ReturnValue(hostret[t])]
  /\ UNCHANGED << buildVars, proc, live, statics, held, size, alignment, hostCalls,
                  hostArgs, hostret, ncalls >>

\* sys_alloc_aligned returns to its caller.
Return(t) ==
  /\ proc = "running"
  /\ pc[t] = "host_returned"
  /\ pc' = [pc EXCEPT ![t] = "returned"]
  /\ ret' = [ret EXCEPT ![t] = ReturnValue(hostret[t])]
  /\ UNCHANGED << buildVars, proc, live, statics, held, size, alignment, hostCalls,
                  hostArgs, hostret, ncalls >>

\* The caller takes the result and goes on; the block is now the caller's.
Resume(t) ==
  /\ proc = "running"
  /\ pc[t] = "returned"
  /\ pc' = [pc EXCEPT ![t] = "idle"]
  /\ size' = [size EXCEPT ![t] = 0]
  /\ alignment' = [alignment EXCEPT ![t] = 0]
  /\ hostCalls' = [hostCalls EXCEPT ![t] = 0]
  /\ hostArgs' = [hostArgs EXCEPT ![t] = << 0, 0 >>]
  /\ hostret' = [hostret EXCEPT ![t] = NULL]
  /\ held' = IF ret[t] = NULL THEN held ELSE held \cup {ret[t]}
  /\ ret' = [ret EXCEPT ![t] = NULL]
  /\ UNCHANGED << buildVars, proc, live, statics, ncalls >>

\* The blocks whose address a call in progress still holds.
InFlight == { b \in live : \E t \in Threads :
                 pc[t] \in {"host_returned", "returned"} /\ hostret[t] = b.base }

\* A block is released through the host (never through the boundary): by the
\* caller that received it, or by the rest of the process for its own blocks.
CallerRelease(b) ==
  /\ proc = "running"
  /\ b \in live \ InFlight
  /\ live' = live \ {b}
  /\ held' = held \ {b.base}
  /\ UNCHANGED << buildVars, proc, statics, threadVars, ncalls >>

\* The rest of the process allocates from the same host heap.
HostOtherAlloc(s) ==
  /\ phase = "linked"
  /\ proc = "running"
  /\ ncalls < MaxCalls
  /\ ncalls' = ncalls + 1
  /\ \E p \in Fits(s, 1, live) :
       live' = live \cup {[base |-> p, len |-> s, written |-> FALSE]}
  /\ UNCHANGED << buildVars, proc, statics, held, threadVars >>

Next ==
  \/ Compile
  \/ Link
  \/ \E t \in Threads, s \in Sizes, a \in Alignments : Enter(t, s, a)
  \/ \E t \in Threads : HostCall(t)
  \/ \E t \in Threads : Return(t)
  \/ \E t \in Threads : Resume(t)
  \/ \E b \in live : CallerRelease(b)
  \/ \E s \in 1..MaxSize : HostOtherAlloc(s)

Spec == Init /\ [][Next]_vars

\* The threads are scheduled fairly and the host call, once made, ends.
FairSpec ==
  /\ Spec
  /\ \A t \in Threads : WF_vars(HostCall(t)) /\ WF_vars(Return(t))

\* ------------------------------------------------------------- the claims
\* The block of the heap at address p (the empty set when there is none).
BlocksAt(p) == { b \in live : b.base = p }

\* The result a thread holds: the host's while the boundary has yet to
\* return it, the boundary's once it has returned.
Result(t) ==
  IF pc[t] = "returned" THEN ret[t]
  ELSE IF pc[t] = "host_returned" THEN hostret[t] ELSE NULL

\* C1: a call with a power-of-two alignment that returned a non-null pointer
\* returned an address divisible by that alignment.
C1_Aligned ==
  \A t \in Threads :
    (pc[t] = "returned" /\ IsPow2(alignment[t]) /\ ret[t] # NULL)
      => ret[t] % alignment[t] = 0

C1_Witness ==
  \E t \in Threads :
    pc[t] = "returned" /\ alignment[t] = 2 /\ size[t] = 1 /\ ret[t] = 2

\* C2: a non-null result is the address of a live block of at least size
\* bytes, disjoint from every other live block (the boundary's or the rest
\* of the host's), and is no address a caller still holds from an earlier
\* call.
C2_NoAlias ==
  \A t \in Threads :
    (pc[t] = "returned" /\ ret[t] # NULL) =>
      /\ ret[t] \notin held
      /\ \E b \in BlocksAt(ret[t]) :
           /\ b.len >= size[t]
           /\ \A c \in live \ {b} : Disjoint(b, c)

C2_Witness ==
  \E t \in Threads :
    /\ pc[t] = "returned" /\ ret[t] # NULL /\ size[t] = 1
    /\ held # {}
    /\ Cardinality(live) = 2

\* C3: the value the boundary returns is the value the host primitive
\* returned for that call: null for null, the same address otherwise.
C3_PassThrough ==
  \A t \in Threads : pc[t] = "returned" => ret[t] = hostret[t]

C3_Witness ==
  \E t, u \in Threads :
    /\ pc[t] = "returned" /\ hostret[t] # NULL /\ ret[t] = hostret[t]
    /\ pc[u] = "returned" /\ hostret[u] = NULL /\ ret[u] = NULL

\* The host has no room for s bytes at any alignment.
Unsatisfiable(s, blocks) == Fits(s, 1, blocks) = {}

C6_ConcurrentCalls ==
  \A t, u \in Threads :
    (t # u /\ Result(t) # NULL /\ Result(u) # NULL) =>
      /\ Result(t) # Result(u)
      /\ \A b \in BlocksAt(Result(t)), c \in BlocksAt(Result(u)) : Disjoint(b, c)
      /\ BlocksAt(Result(t)) # {}
      /\ IsPow2(alignment[t]) => Result(t) % alignment[t] = 0

C6_Witness ==
  \E t, u \in Threads :
    /\ t # u
    /\ pc[t] = "host_returned" /\ hostret[t] # NULL
    /\ pc[u] = "host_returned" /\ hostret[u] # NULL

\* A step of the boundary: a thread enters, calls the host or returns.
ShimStep ==
  \E t \in Threads :
    /\ pc[t] \in {"idle", "in_shim", "host_returned"}
    /\ pc'[t] # pc[t]

C8_OneCallSameArgs ==
  /\ \A t \in Threads :
       /\ pc[t] = "in_shim" => hostCalls[t] = 0
       /\ pc[t] \in {"host_returned", "returned", "aborted"} =>
            (hostCalls[t] = 1 /\ hostArgs[t] = << size[t], alignment[t] >>)
  /\ \A b \in live : ~b.written

C8_Witness ==
  \E t, u \in Threads :
    /\ pc[t] = "returned" /\ size[t] = 0 /\ alignment[t] = 2
    /\ hostCalls[t] = 1 /\ hostArgs[t] = << 0, 2 >>
    /\ pc[u] = "returned" /\ hostret[u] = NULL /\ hostCalls[u] = 1

C10_ReturnsUnlessTerminated ==
  \A t \in Threads :
    (pc[t] = "host_returned") ~> (pc[t] = "returned" \/ proc = "terminated")

====
